---- MODULE Spec2Model ----
(***************************************************************************)
(* A model of the murder-mystery party game: one game session stored in    *)
(* the remote tables game_sessions, game_players and votes, and the        *)
(* browser clients (one per user) that read and write those tables from    *)
(* the React components GameDashboard, JoinGameModal, GameLobby, GamePlay, *)
(* VotingPhase and GameResults.  Every await of a handler is one step, so  *)
(* that the handlers of different clients interleave as their requests do. *)
(***************************************************************************)
EXTENDS Integers, Sequences, FiniteSets, TLC

(* ------------------------------------------------------------------ *)
(* Bounds of the model                                                  *)
(* ------------------------------------------------------------------ *)

\* stories.total_rounds ranges over 1..MaxRounds
MaxRounds == 2
\* at most this many UPDATEs of the game_sessions row are issued
MaxUpdates == 4
\* at most this many game_players rows are ever inserted
MaxPlayerRows == 3
\* at most this many votes rows are ever inserted
MaxVoteRows == 2
\* at most this many votes rows are stored when GameResults is mounted
MaxTallyVotes == 3
\* at most this many further sessions are created beside the session of the model
MaxOtherSessions == 1

(* ------------------------------------------------------------------ *)
(* Data                                                                 *)
(* ------------------------------------------------------------------ *)

Null == "null"

Users == {"u1", "u2", "u3"}

\* the user whose createGame inserted the session (host_id: user.id)
Host == "u1"

\* the characters rows of the session's story
Characters == {"c1", "c2", "c3"}

\* the stories rows (min_players, max_players): the story of the games of the
\* model, a story for exactly two players, and a story without characters rows
Stories ==
    [s1 |-> [min_players |-> 2, max_players |-> 3],
     s2 |-> [min_players |-> 2, max_players |-> 2],
     s0 |-> [min_players |-> 2, max_players |-> 3]]

\* the characters rows with story_id = the story's id
charactersOf(story_id) == IF story_id = "s0" THEN {} ELSE Characters

\* GameLobby's `story` before fetchGameData has set it (useState(null))
NoStory == [min_players |-> 0, max_players |-> 0]

\* the users in a fixed order, and the game_players row a user holds: its id
\* and character are those of the order of arrival u1, u2, u3
UserSeq == <<"u1", "u2", "u3">>

CharacterSeq == <<"c1", "c2", "c3">>

rowOf(u, role) ==
    LET i == CHOOSE k \in 1..Len(UserSeq) : UserSeq[k] = u
    IN [id |-> i, user_id |-> u, character_id |-> CharacterSeq[i], role |-> role]

\* the value startGame uses while the story is not loaded
DefaultMinPlayers == 3

SessionCode == "ABC1"

Codes == {"", "abc1", "ABC1", "XYZ9"}

Passwords == {"", "pw", "PW", "bad"}

game_status == <<"waiting", "in_progress", "voting", "completed">>

\* String.prototype.toUpperCase on the codes of the model
toUpperCase(code) ==
    CASE code = "abc1" -> "ABC1"
      [] OTHER -> code

\* the position of a status in the enum game_status
StatusRank(s) == CHOOSE i \in 1..4 : game_status[i] = s

VARIABLES
    session,        \* the game_sessions row
    game_players,   \* the game_players rows of the session
    votes,          \* the votes rows of the session
    updates,        \* the UPDATE events of the game_sessions row, in order
    nextPlayerId,   \* the id the next inserted game_players row gets
    nextVoteId,     \* the id the next inserted votes row gets
    screen,         \* GameDashboard: "dashboard" or "game" (GameLobby mounted)
    lsession,       \* GameLobby/GamePlay state `session` of each client
    lplayer,        \* GameLobby/GamePlay state `player` of each client
    cursor,         \* number of UPDATE events already sent when the client last read
    story,          \* GameLobby state `story`: NoStory or the stories row
    players,        \* GameLobby state `players`
    gplayers,       \* GamePlay state `players`
    gfetch,         \* GamePlay's fetchGameData of the mount is outstanding
    gmount,         \* GamePlay: `session.current_round` and `story` of the first render
    clues,          \* GamePlay state `clues`
    userVote,       \* VotingPhase state `userVote`
    jpc,            \* joinGame: position of the running call
    takenCharacterIds, \* joinGame: the character_id of the `players` rows it read
    jpassword,      \* joinGame: the `password` the running call was made with
    spc,            \* startGame: position of the running call
    todo,           \* startGame: ids of shuffledPlayers not yet updated
    murdererId,     \* startGame: id of shuffledPlayers[murdererIndex]
    rplayers,       \* GameResults prop `players`, a list
    rvotes,         \* GameResults state `votes`
    rfetch,         \* GameResults' fetchVotes of the mount is outstanding
    osessions,      \* the game_sessions rows createGame inserted, each with its host's player row
    cpc,            \* createGame: position of the running call
    csession        \* createGame: id of the `session` the running call inserted

dbvars == <<session, game_players, votes, updates, nextPlayerId, nextVoteId>>
lobbyvars == <<screen, lsession, lplayer, cursor, story, players>>
playvars == <<gplayers, gfetch, gmount, clues, userVote>>
joinvars == <<jpc, takenCharacterIds, jpassword>>
startvars == <<spc, todo, murdererId>>
resultsvars == <<rplayers, rvotes, rfetch>>
createvars == <<osessions, cpc, csession>>

vars == <<dbvars, lobbyvars, playvars, joinvars, startvars, resultsvars, createvars>>

NoPlayer == [id |-> 0, user_id |-> Null, character_id |-> Null, role |-> Null]

\* what fetchGameData of GamePlay closes over while GamePlay is not mounted
NoMount == [current_round |-> 0, story |-> NoStory]

NoSession == [status |-> Null, current_round |-> 0, max_rounds |-> 0,
              password |-> Null, host_id |-> Null, story_id |-> Null]

\* the stories row of the session: .eq('id', session.story_id)
StoryRow == Stories[session.story_id]

(* ------------------------------------------------------------------ *)
(* What each component renders                                          *)
(* ------------------------------------------------------------------ *)

isHost(c) == lsession[c].host_id = c

isMurderer(c) == lplayer[c].role = "murderer"

isVotingRound(c) == lsession[c].current_round = lsession[c].max_rounds

\* which view a client shows
View(c) ==
    IF screen[c] = "dashboard" THEN "dashboard"
    ELSE IF screen[c] = "other" THEN "other"
    ELSE IF lsession[c].status \in {"in_progress", "voting"}
         THEN IF lsession[c].status = "voting" THEN "voting" ELSE "play"
         ELSE "lobby"

\* GamePlay is mounted by GameLobby
GamePlayMounted(s) == s.status \in {"in_progress", "voting"}

\* story?.min_players || 3
minPlayers(c) ==
    IF story[c] = NoStory \/ story[c].min_players = 0
    THEN DefaultMinPlayers ELSE story[c].min_players

\* the client-side state that lives in GamePlay and VotingPhase follows the
\* mounting and unmounting of those components when `session` changes from
\* old to new
Remount(c, old, new) ==
    /\ gplayers' = [gplayers EXCEPT ![c] =
            IF GamePlayMounted(new) /\ GamePlayMounted(old) THEN @ ELSE {}]
    /\ gfetch' = [gfetch EXCEPT ![c] =
            IF GamePlayMounted(new)
            THEN (IF GamePlayMounted(old) THEN @ ELSE TRUE)
            ELSE FALSE]
    /\ gmount' = [gmount EXCEPT ![c] =
            IF GamePlayMounted(new)
            THEN (IF GamePlayMounted(old) THEN @
                  ELSE [current_round |-> new.current_round, story |-> story[c]])
            ELSE NoMount]
    /\ clues' = [clues EXCEPT ![c] =
            IF GamePlayMounted(new) /\ GamePlayMounted(old) THEN @ ELSE {}]
    /\ userVote' = [userVote EXCEPT ![c] =
            IF new.status = "voting" /\ old.status = "voting" THEN @ ELSE Null]

(* ------------------------------------------------------------------ *)
(* Initial states                                                       *)
(* ------------------------------------------------------------------ *)

\* the row createGame inserts for the host
HostRow == [id |-> 1, user_id |-> Host, character_id |-> "c1", role |-> "detective"]

\* the fields of the players rows that GameLobby reads (id, user_id and the
\* character; the lobby never reads a role)
lobbyRows(ps) ==
    {[id |-> p.id, user_id |-> p.user_id, character_id |-> p.character_id] : p \in ps}

\* createGame has inserted the session (status waiting, current_round 0,
\* max_rounds from the story) and the host's row; the host's page then shows
\* the lobby, the other users are on the dashboard
createGame(selectedStory) ==
    /\ \E r \in 1..MaxRounds :
          session = [status |-> "waiting", current_round |-> 0, max_rounds |-> r,
                     password |-> "pw", host_id |-> Host, story_id |-> selectedStory]
    /\ game_players = {HostRow}
    /\ votes = {}
    /\ updates = <<>>
    /\ nextPlayerId = 2
    /\ nextVoteId = 1
    /\ screen = [c \in Users |-> IF c = Host THEN "game" ELSE "dashboard"]
    /\ lsession = [c \in Users |-> IF c = Host THEN session ELSE NoSession]
    /\ lplayer = [c \in Users |-> IF c = Host THEN HostRow ELSE NoPlayer]
    /\ cursor = [c \in Users |-> 0]
    /\ story = [c \in Users |-> NoStory]
    /\ players = [c \in Users |-> {}]
    /\ gplayers = [c \in Users |-> {}]
    /\ gfetch = [c \in Users |-> FALSE]
    /\ gmount = [c \in Users |-> NoMount]
    /\ clues = [c \in Users |-> {}]
    /\ userVote = [c \in Users |-> Null]
    /\ jpc = [c \in Users |-> "idle"]
    /\ takenCharacterIds = [c \in Users |-> {}]
    /\ jpassword = [c \in Users |-> Null]
    /\ spc = [c \in Users |-> "idle"]
    /\ todo = [c \in Users |-> {}]
    /\ murdererId = [c \in Users |-> 0]
    /\ rplayers = <<>>
    /\ rvotes = {}
    /\ rfetch = FALSE
    /\ osessions = {}
    /\ cpc = [c \in Users |-> "idle"]
    /\ csession = [c \in Users |-> 0]

Init == createGame("s1")

\* the same for the story of two players
InitSmallStory == createGame("s2")

\* the users that hold a row when the game of SpecGame begins
Joined == {"u1", "u2"}

\* the rows of a lobby of two: the host and the user who joined and drew c2
LobbyRows ==
    {HostRow,
     [id |-> 2, user_id |-> "u2", character_id |-> "c2", role |-> "detective"]}

\* a lobby of two, as joinGame and fetchGameData leave it: both clients show
\* the lobby of the waiting session, the host has the story and the players
lobbyOf(joined, rows) ==
    /\ \E r \in 1..MaxRounds :
          session = [status |-> "waiting", current_round |-> 0, max_rounds |-> r,
                     password |-> "pw", host_id |-> Host, story_id |-> "s1"]
    /\ game_players = rows
    /\ votes = {}
    /\ updates = <<>>
    /\ nextPlayerId = Cardinality(rows) + 1
    /\ nextVoteId = 1
    /\ screen = [c \in Users |-> IF c \in joined THEN "game" ELSE "dashboard"]
    /\ lsession = [c \in Users |-> IF c \in joined THEN session ELSE NoSession]
    /\ lplayer = [c \in Users |->
          IF c \in joined THEN CHOOSE p \in game_players : p.user_id = c
          ELSE NoPlayer]
    /\ cursor = [c \in Users |-> 0]
    /\ story = [c \in Users |-> IF c = Host THEN StoryRow ELSE NoStory]
    /\ players = [c \in Users |-> IF c = Host THEN lobbyRows(game_players) ELSE {}]
    /\ gplayers = [c \in Users |-> {}]
    /\ gfetch = [c \in Users |-> FALSE]
    /\ gmount = [c \in Users |-> NoMount]
    /\ clues = [c \in Users |-> {}]
    /\ userVote = [c \in Users |-> Null]
    /\ jpc = [c \in Users |-> "idle"]
    /\ takenCharacterIds = [c \in Users |-> {}]
    /\ jpassword = [c \in Users |-> Null]
    /\ spc = [c \in Users |-> "idle"]
    /\ todo = [c \in Users |-> {}]
    /\ murdererId = [c \in Users |-> 0]
    /\ rplayers = <<>>
    /\ rvotes = {}
    /\ rfetch = FALSE
    /\ osessions = {}
    /\ cpc = [c \in Users |-> "idle"]
    /\ csession = [c \in Users |-> 0]

InitGame == lobbyOf(Joined, LobbyRows)

\* the rows of a full lobby of three
LobbyRowsOfThree ==
    LobbyRows \cup {[id |-> 3, user_id |-> "u3", character_id |-> "c3", role |-> "detective"]}

\* a lobby of three
InitGameOfThree == lobbyOf(Users, LobbyRowsOfThree)

(* ------------------------------------------------------------------ *)
(* GameDashboard: handleGameJoined, handleLeaveGame, checkCurrentGame   *)
(* ------------------------------------------------------------------ *)

\* handleGameJoined(s, p): GameLobby is mounted with the props s and p and
\* subscribes to the changes of the session from now on
handleGameJoined(c, s, p) ==
    /\ screen' = [screen EXCEPT ![c] = "game"]
    /\ lsession' = [lsession EXCEPT ![c] = s]
    /\ lplayer' = [lplayer EXCEPT ![c] = p]
    /\ cursor' = [cursor EXCEPT ![c] = Len(updates)]
    /\ story' = [story EXCEPT ![c] = NoStory]
    /\ players' = [players EXCEPT ![c] = {}]
    /\ gplayers' = [gplayers EXCEPT ![c] = {}]
    /\ gfetch' = [gfetch EXCEPT ![c] = GamePlayMounted(s)]
    /\ gmount' = [gmount EXCEPT ![c] =
            IF GamePlayMounted(s)
            THEN [current_round |-> s.current_round, story |-> NoStory]
            ELSE NoMount]
    /\ clues' = [clues EXCEPT ![c] = {}]
    /\ userVote' = [userVote EXCEPT ![c] = Null]

\* handleLeaveGame: back to the dashboard, every component of the game unmounted
handleLeaveGame(c) ==
    /\ screen' = [screen EXCEPT ![c] = "dashboard"]
    /\ lsession' = [lsession EXCEPT ![c] = NoSession]
    /\ lplayer' = [lplayer EXCEPT ![c] = NoPlayer]
    /\ cursor' = [cursor EXCEPT ![c] = 0]
    /\ story' = [story EXCEPT ![c] = NoStory]
    /\ players' = [players EXCEPT ![c] = {}]
    /\ gplayers' = [gplayers EXCEPT ![c] = {}]
    /\ gfetch' = [gfetch EXCEPT ![c] = FALSE]
    /\ gmount' = [gmount EXCEPT ![c] = NoMount]
    /\ clues' = [clues EXCEPT ![c] = {}]
    /\ userVote' = [userVote EXCEPT ![c] = Null]

\* the rows checkCurrentGame's query matches: the user's rows, inner-joined
\* with a session that is not completed
currentGameRows(c) ==
    {p \in game_players : p.user_id = c /\ session.status # "completed"}

\* GameLobby is mounted for a session createGame inserted; what happens in
\* that lobby is not followed
handleGameCreated(c) ==
    /\ screen' = [screen EXCEPT ![c] = "other"]
    /\ lsession' = [lsession EXCEPT ![c] = NoSession]
    /\ lplayer' = [lplayer EXCEPT ![c] = NoPlayer]
    /\ cursor' = [cursor EXCEPT ![c] = 0]
    /\ story' = [story EXCEPT ![c] = NoStory]
    /\ players' = [players EXCEPT ![c] = {}]
    /\ gplayers' = [gplayers EXCEPT ![c] = {}]
    /\ gfetch' = [gfetch EXCEPT ![c] = FALSE]
    /\ gmount' = [gmount EXCEPT ![c] = NoMount]
    /\ clues' = [clues EXCEPT ![c] = {}]
    /\ userVote' = [userVote EXCEPT ![c] = Null]

\* the sessions createGame inserted in which the user has a player row; their
\* status is waiting
hostedSessions(c) == {s \in osessions : s.player.user_id = c}

\* the page is loaded again: every running handler of the client is gone, and
\* checkCurrentGame resumes the game when its .single() finds exactly one row
checkCurrentGame(c) ==
    /\ IF Cardinality(currentGameRows(c)) + Cardinality(hostedSessions(c)) = 1
       THEN IF currentGameRows(c) # {}
            THEN handleGameJoined(c, session, CHOOSE p \in currentGameRows(c) : TRUE)
            ELSE handleGameCreated(c)
       ELSE handleLeaveGame(c)
    /\ cpc' = [cpc EXCEPT ![c] = "idle"]
    /\ csession' = [csession EXCEPT ![c] = 0]
    /\ jpc' = [jpc EXCEPT ![c] = "idle"]
    /\ takenCharacterIds' = [takenCharacterIds EXCEPT ![c] = {}]
    /\ jpassword' = [jpassword EXCEPT ![c] = Null]
    /\ spc' = [spc EXCEPT ![c] = "idle"]
    /\ todo' = [todo EXCEPT ![c] = {}]
    /\ murdererId' = [murdererId EXCEPT ![c] = 0]
    /\ UNCHANGED <<osessions, resultsvars, dbvars>>

(* ------------------------------------------------------------------ *)
(* JoinGameModal: joinGame                                              *)
(* ------------------------------------------------------------------ *)

\* joinGame without its password check
joinGameAnyPassword(c, sessionCode, password) ==
    /\ screen[c] = "dashboard"
    /\ jpc[c] = "idle"
    /\ cpc[c] = "idle"
    /\ IF /\ sessionCode # ""
          /\ toUpperCase(sessionCode) = SessionCode
          /\ session.status = "waiting"
       THEN /\ jpc' = [jpc EXCEPT ![c] = "existing"]
            /\ jpassword' = [jpassword EXCEPT ![c] = password]
            /\ lsession' = [lsession EXCEPT ![c] = session]
       ELSE UNCHANGED <<jpc, jpassword, lsession>>
    /\ UNCHANGED <<createvars, resultsvars, dbvars, screen, lplayer, cursor, story, players, playvars,
                   takenCharacterIds, startvars>>

\* joinGame up to its status check: the session is looked up by code, then
\* the password and the status are checked on the row that was read; a client
\* runs one call of its modals (joinGame, createGame) at a time
joinGame(c, sessionCode, password) ==
    /\ screen[c] = "dashboard"
    /\ jpc[c] = "idle"
    /\ cpc[c] = "idle"
    /\ IF /\ sessionCode # ""
          /\ toUpperCase(sessionCode) = SessionCode
          /\ ~(session.password # Null /\ session.password # password)
          /\ session.status = "waiting"
       THEN /\ jpc' = [jpc EXCEPT ![c] = "existing"]
            /\ jpassword' = [jpassword EXCEPT ![c] = password]
            /\ lsession' = [lsession EXCEPT ![c] = session]
       ELSE UNCHANGED <<jpc, jpassword, lsession>>
    /\ UNCHANGED <<createvars, resultsvars, dbvars, screen, lplayer, cursor, story, players, playvars,
                   takenCharacterIds, startvars>>

\* joinGame: "Check if user is already in this game"; .single() yields a row
\* only when exactly one row matches
joinGameExisting(c) ==
    /\ jpc[c] = "existing"
    /\ LET mine == {p \in game_players : p.user_id = c}
       IN IF Cardinality(mine) = 1
          THEN /\ handleGameJoined(c, lsession[c], CHOOSE p \in mine : TRUE)
               /\ jpc' = [jpc EXCEPT ![c] = "idle"]
               /\ jpassword' = [jpassword EXCEPT ![c] = Null]
          ELSE /\ jpc' = [jpc EXCEPT ![c] = "players"]
               /\ UNCHANGED <<lobbyvars, playvars, jpassword>>
    /\ UNCHANGED <<createvars, resultsvars, dbvars, takenCharacterIds, startvars>>

\* the characters of the story whose id is not among the taken ones
availableCharacters(taken) == {ch \in Characters : ch \notin taken}

\* joinGame: "Check player count" on the players rows read here, and the
\* character_id of those rows ("Get taken characters")
joinGamePlayers(c) ==
    /\ jpc[c] = "players"
    /\ LET taken == {p.character_id : p \in game_players}
       IN IF \/ Cardinality(game_players) >= StoryRow.max_players
             \/ availableCharacters(taken) = {}
          THEN /\ jpc' = [jpc EXCEPT ![c] = "idle"]
               /\ jpassword' = [jpassword EXCEPT ![c] = Null]
               /\ lsession' = [lsession EXCEPT ![c] = NoSession]
               /\ UNCHANGED takenCharacterIds
          ELSE /\ jpc' = [jpc EXCEPT ![c] = "insert"]
               /\ takenCharacterIds' = [takenCharacterIds EXCEPT ![c] = taken]
               /\ UNCHANGED <<lsession, jpassword>>
    /\ UNCHANGED <<createvars, resultsvars, dbvars, screen, lplayer, cursor, story, players, playvars,
                   startvars>>

\* joinGame: "Assign random available character" and "Add player to game"
joinGameInsert(c) ==
    /\ jpc[c] = "insert"
    /\ nextPlayerId <= MaxPlayerRows
    /\ \E randomCharacter \in availableCharacters(takenCharacterIds[c]) :
          LET player == [id |-> nextPlayerId, user_id |-> c,
                         character_id |-> randomCharacter, role |-> "detective"]
          IN /\ game_players' = game_players \cup {player}
             /\ handleGameJoined(c, lsession[c], player)
    /\ nextPlayerId' = nextPlayerId + 1
    /\ jpc' = [jpc EXCEPT ![c] = "idle"]
    /\ takenCharacterIds' = [takenCharacterIds EXCEPT ![c] = {}]
    /\ jpassword' = [jpassword EXCEPT ![c] = Null]
    /\ UNCHANGED <<createvars, resultsvars, session, votes, updates, nextVoteId, startvars>>

(* ------------------------------------------------------------------ *)
(* CreateGameModal: createGame                                          *)
(* ------------------------------------------------------------------ *)

\* createGame up to "Create game session": the rpc or the insert fails and
\* the call ends, or the session row is inserted
createGame_session(c, selectedStory) ==
    /\ screen[c] = "dashboard"
    /\ cpc[c] = "idle"
    /\ jpc[c] = "idle"
    /\ Cardinality(osessions) < MaxOtherSessions
    /\ \E error \in BOOLEAN :
          IF error
          THEN UNCHANGED vars
          ELSE LET id == Cardinality(osessions) + 1
               IN /\ osessions' = osessions \cup
                        {[id |-> id, host_id |-> c, story_id |-> selectedStory,
                          status |-> "waiting", player |-> NoPlayer]}
                  /\ cpc' = [cpc EXCEPT ![c] = "characters"]
                  /\ csession' = [csession EXCEPT ![c] = id]
                  /\ UNCHANGED <<resultsvars, dbvars, lobbyvars, playvars, joinvars,
                                 startvars>>

\* the story_id of the session the running call inserted
createdStory(c) == (CHOOSE s \in osessions : s.id = csession[c]).story_id

\* createGame: "Get characters for this story"; the call ends with the
\* thrown charactersError, or with the TypeError of randomCharacter.id when
\* the story has no character
createGame_characters(c) ==
    /\ cpc[c] = "characters"
    /\ \E error \in BOOLEAN :
          IF error \/ charactersOf(createdStory(c)) = {}
          THEN /\ cpc' = [cpc EXCEPT ![c] = "idle"]
               /\ csession' = [csession EXCEPT ![c] = 0]
          ELSE /\ cpc' = [cpc EXCEPT ![c] = "player"]
               /\ UNCHANGED csession
    /\ UNCHANGED <<osessions, resultsvars, dbvars, lobbyvars, playvars, joinvars, startvars>>

\* createGame: "Assign random character to host", "Add host as player" and
\* onGameCreated, or the thrown playerError
createGame_player(c) ==
    /\ cpc[c] = "player"
    /\ \E error \in BOOLEAN :
          IF error
          THEN UNCHANGED <<osessions, lobbyvars, playvars>>
          ELSE \E randomCharacter \in charactersOf(createdStory(c)) :
                  /\ osessions' =
                        {IF s.id = csession[c]
                         THEN [s EXCEPT !.player =
                                  [id |-> 1, user_id |-> c,
                                   character_id |-> randomCharacter,
                                   role |-> "detective"]]
                         ELSE s : s \in osessions}
                  /\ handleGameCreated(c)
    /\ cpc' = [cpc EXCEPT ![c] = "idle"]
    /\ csession' = [csession EXCEPT ![c] = 0]
    /\ UNCHANGED <<resultsvars, dbvars, joinvars, startvars>>

(* ------------------------------------------------------------------ *)
(* GameLobby: fetchGameData, the session subscription, startGame,       *)
(* leaveGame                                                            *)
(* ------------------------------------------------------------------ *)

\* GameLobby.fetchGameData (on mount and on every change of the players):
\* the story, when its lookup yields a row, and the players rows
fetchGameData(c) ==
    /\ screen[c] = "game"
    /\ story' = [story EXCEPT ![c] = StoryRow]
    /\ players' = [players EXCEPT ![c] = lobbyRows(game_players)]
    /\ UNCHANGED <<createvars, resultsvars, dbvars, screen, lsession, lplayer, cursor, playvars, joinvars,
                   startvars>>

\* the subscriptions of GameLobby and GamePlay receive the next UPDATE of the
\* session row: setSession(payload.new)
setSession(c) ==
    /\ screen[c] = "game"
    /\ cursor[c] < Len(updates)
    /\ LET new == updates[cursor[c] + 1]
       IN /\ lsession' = [lsession EXCEPT ![c] = new]
          /\ Remount(c, lsession[c], new)
    /\ cursor' = [cursor EXCEPT ![c] = @ + 1]
    /\ UNCHANGED <<createvars, resultsvars, dbvars, screen, lplayer, story, players, joinvars, startvars>>

\* an UPDATE of the game_sessions row and its change event
updateSession(new) ==
    /\ Len(updates) < MaxUpdates
    /\ session' = new
    /\ updates' = Append(updates, new)

\* startGame up to the first await: the player count check, the shuffle and
\* the choice of murdererIndex
startGame(c) ==
    /\ spc[c] = "idle"
    /\ ~(Cardinality(players[c]) < minPlayers(c))
    /\ \E m \in players[c] : murdererId' = [murdererId EXCEPT ![c] = m.id]
    /\ todo' = [todo EXCEPT ![c] = {p.id : p \in players[c]}]
    /\ spc' = [spc EXCEPT ![c] = "running"]
    /\ UNCHANGED <<createvars, resultsvars, dbvars, lobbyvars, playvars, joinvars>>

\* one turn of startGame's loop: update({ role }).eq('id', playerToUpdate.id)
startGameRole(c) ==
    /\ spc[c] = "running"
    /\ \E i \in todo[c] :
          /\ game_players' =
                {IF p.id = i
                 THEN [p EXCEPT !.role = IF i = murdererId[c] THEN "murderer"
                                          ELSE "detective"]
                 ELSE p : p \in game_players}
          /\ todo' = [todo EXCEPT ![c] = @ \ {i}]
    /\ UNCHANGED <<createvars, resultsvars, session, votes, updates, nextPlayerId, nextVoteId, lobbyvars,
                   playvars, joinvars, spc, murdererId>>

\* startGame after the loop: "Update game session status"
startGameStatus(c) ==
    /\ spc[c] = "running"
    /\ todo[c] = {}
    /\ updateSession([session EXCEPT !.status = "in_progress", !.current_round = 1])
    /\ spc' = [spc EXCEPT ![c] = "idle"]
    /\ murdererId' = [murdererId EXCEPT ![c] = 0]
    /\ UNCHANGED <<createvars, resultsvars, game_players, votes, nextPlayerId, nextVoteId, lobbyvars,
                   playvars, joinvars, todo>>

\* leaveGame: delete().eq('id', player.id), then onLeaveGame()
leaveGame(c) ==
    /\ game_players' = {p \in game_players : p.id # lplayer[c].id}
    /\ handleLeaveGame(c)
    /\ UNCHANGED <<createvars, resultsvars, session, votes, updates, nextPlayerId, nextVoteId, joinvars,
                   startvars>>

(* ------------------------------------------------------------------ *)
(* GamePlay: fetchGameData, nextRound                                   *)
(* ------------------------------------------------------------------ *)

\* the clues rows of the session's story: every round has a clue flagged for
\* the murderer, one flagged false and one with is_for_murderer null
Clues ==
    {[round_number |-> r, is_for_murderer |-> f] :
        r \in 1..MaxRounds, f \in {"true", "false", Null}}

\* clue.round_number <= session.current_round &&
\*     (clue.is_for_murderer ? isMurderer : !clue.is_for_murderer)
isVisible(clue, current_round, murderer) ==
    /\ clue.round_number <= current_round
    /\ IF clue.is_for_murderer = "true" THEN murderer
       ELSE clue.is_for_murderer # "true"

\* the rows .lte('round_number', session.current_round) returns, each with its
\* isVisible
cluesWithVisibility(current_round, murderer) ==
    {[round_number |-> cl.round_number, is_for_murderer |-> cl.is_for_murderer,
      isVisible |-> isVisible(cl, current_round, murderer)] :
        cl \in {x \in Clues : x.round_number <= current_round}}

\* clues.filter(clue => clue.isVisible): the clues the client shows
visibleClues(c) ==
    {[round_number |-> cl.round_number, is_for_murderer |-> cl.is_for_murderer] :
        cl \in {x \in clues[c] : x.isVisible}}

\* a card of the host's players list that also showed the role
playerCardWithRole(p, host_id) ==
    [id |-> p.id, user_id |-> p.user_id, character_id |-> p.character_id,
     badge |-> IF p.user_id = host_id THEN "Host" ELSE "Player", role |-> p.role]

\* a card of "Players List (Host View)": the username, the character's name
\* and description, and the badge Host or Player
playerCard(p, host_id) ==
    [id |-> p.id, user_id |-> p.user_id, character_id |-> p.character_id,
     badge |-> IF p.user_id = host_id THEN "Host" ELSE "Player"]

\* players.map(...) of the host view, over the rows `rows`
playersList(c, rows) == {playerCard(p, lsession[c].host_id) : p \in rows}

\* GamePlay.fetchGameData, run once when GamePlay is mounted: the players
\* rows, and the clues when the `story` prop of the first render was set; the
\* round and the role are those of the first render
fetchGameDataPlay(c) ==
    /\ screen[c] = "game"
    /\ gfetch[c]
    /\ gplayers' = [gplayers EXCEPT ![c] = game_players]
    /\ clues' = [clues EXCEPT ![c] =
            IF gmount[c].story # NoStory
            THEN cluesWithVisibility(gmount[c].current_round, isMurderer(c))
            ELSE @]
    /\ gfetch' = [gfetch EXCEPT ![c] = FALSE]
    /\ UNCHANGED <<createvars, resultsvars, dbvars, lobbyvars, gmount, userVote, joinvars, startvars>>

\* nextRound: the new round and status are computed from the client's own
\* copy of the session
nextRound(c) ==
    IF ~isHost(c)
    THEN UNCHANGED vars
    ELSE LET newRound == lsession[c].current_round + 1
             newStatus == IF newRound = lsession[c].max_rounds
                          THEN "voting" ELSE lsession[c].status
         IN /\ updateSession([session EXCEPT !.current_round = newRound,
                                             !.status = newStatus])
            /\ UNCHANGED <<createvars, resultsvars, game_players, votes, nextPlayerId, nextVoteId,
                           lobbyvars, playvars, joinvars, startvars>>

(* ------------------------------------------------------------------ *)
(* VotingPhase: fetchVotes, castVote, endVoting                         *)
(* ------------------------------------------------------------------ *)

\* fetchVotes (on mount and on every change of the votes): userVote is set
\* from a row of the caller, when there is one
fetchVotes(c) ==
    /\ View(c) = "voting"
    /\ LET mine == {v \in votes : v.voter_id = c}
       IN IF mine = {}
          THEN UNCHANGED userVote
          ELSE \E myVote \in mine :
                  userVote' = [userVote EXCEPT ![c] = myVote.accused_id]
    /\ UNCHANGED <<createvars, resultsvars, dbvars, lobbyvars, gplayers, gfetch, gmount, clues,
                   joinvars, startvars>>

\* castVote(accusedId): refused when userVote is set, else one row inserted
castVote(c, accusedId) ==
    IF userVote[c] # Null
    THEN UNCHANGED vars
    ELSE /\ nextVoteId <= MaxVoteRows
         /\ votes' = votes \cup {[id |-> nextVoteId, voter_id |-> c,
                                  accused_id |-> accusedId]}
         /\ nextVoteId' = nextVoteId + 1
         /\ userVote' = [userVote EXCEPT ![c] = accusedId]
         /\ UNCHANGED <<createvars, resultsvars, session, game_players, updates, nextPlayerId, lobbyvars,
                        gplayers, gfetch, gmount, clues, joinvars, startvars>>

\* endVoting: update({ status: 'completed' })
endVoting(c) ==
    IF ~isHost(c)
    THEN UNCHANGED vars
    ELSE /\ updateSession([session EXCEPT !.status = "completed"])
         /\ UNCHANGED <<createvars, resultsvars, game_players, votes, nextPlayerId, nextVoteId, lobbyvars,
                        playvars, joinvars, startvars>>

(* ------------------------------------------------------------------ *)
(* GameResults: fetchVotes and the tally                                *)
(* ------------------------------------------------------------------ *)

\* GameResults.fetchVotes, run once when GameResults is mounted
fetchVotesResults ==
    /\ rfetch
    /\ rvotes' = votes
    /\ rfetch' = FALSE
    /\ UNCHANGED <<createvars, rplayers, dbvars, lobbyvars, playvars, joinvars, startvars>>

\* votes.filter(v => v.accused_id === p.user_id).length
voteCount(p, vs) == Cardinality({v \in vs : v.accused_id = p.user_id})

\* a sort that leaves the list as it is
sortKeepsOrder(s) == s

\* a descending sort that puts each entry in front of the entries of equal count
RECURSIVE sortTiesReversed(_)
sortTiesReversed(s) ==
    IF s = <<>> THEN <<>>
    ELSE LET e == s[Len(s)]
             before == sortTiesReversed(SubSeq(s, 1, Len(s) - 1))
             n == Cardinality({i \in 1..Len(before) :
                                  before[i].voteCount > e.voteCount})
         IN SubSeq(before, 1, n) \o <<e>> \o SubSeq(before, n + 1, Len(before))

\* Array.prototype.sort with (a, b) => b.voteCount - a.voteCount: descending,
\* and stable (ECMAScript 2019): each entry is put behind the entries that
\* came before it and count at least as much
RECURSIVE sort(_)
sort(s) ==
    IF s = <<>> THEN <<>>
    ELSE LET e == s[Len(s)]
             before == sort(SubSeq(s, 1, Len(s) - 1))
             n == Cardinality({i \in 1..Len(before) :
                                  before[i].voteCount >= e.voteCount})
         IN SubSeq(before, 1, n) \o <<e>> \o SubSeq(before, n + 1, Len(before))

\* players.map(p => ({ player: p, voteCount: ... })).sort(...)
voteCounts(ps, vs) ==
    sort([i \in 1..Len(ps) |-> [player |-> ps[i], voteCount |-> voteCount(ps[i], vs)]])

\* the outcome decided by the presence of a murderer in the list only
detectivesWonAnyMurderer(ps, vs) ==
    \E i \in 1..Len(ps) : ps[i].role = "murderer"

\* the outcome decided without the test voteCount > 0
detectivesWonMostVotedOnly(ps, vs) ==
    LET tally == voteCounts(ps, vs)
    IN /\ Len(tally) > 0
       /\ tally[1].player.role = "murderer"

\* mostVoted?.player.role === 'murderer' && mostVoted.voteCount > 0
detectivesWon(ps, vs) ==
    LET tally == voteCounts(ps, vs)
    IN /\ Len(tally) > 0
       /\ tally[1].player.role = "murderer"
       /\ tally[1].voteCount > 0

\* the header GameResults renders
outcome(ps, vs) ==
    IF detectivesWon(ps, vs) THEN "detectives win" ELSE "murderer wins"

(* ------------------------------------------------------------------ *)
(* The controls each view renders                                       *)
(* ------------------------------------------------------------------ *)

\* "Create Mystery" of CreateGameModal, with one of the stories selected
CreateButton(c) == \E selectedStory \in DOMAIN Stories : createGame_session(c, selectedStory)

\* "Join Game" of the dashboard's modal
JoinButton(c) == \E code \in Codes, pw \in Passwords : joinGame(c, code, pw)

\* "Start Investigation": rendered for the host, disabled while loading or
\* short of players
StartButton(c) ==
    /\ View(c) = "lobby"
    /\ isHost(c)
    /\ startGame(c)

\* "Leave Game" of the lobby
LeaveButton(c) ==
    /\ View(c) = "lobby"
    /\ leaveGame(c)

\* the same control rendered without the !isVotingRound condition
NextRoundButtonAlways(c) ==
    /\ View(c) = "play"
    /\ isHost(c)
    /\ nextRound(c)

\* "Next Round" / "Start Voting": rendered when isHost && !isVotingRound
NextRoundButton(c) ==
    /\ View(c) = "play"
    /\ isHost(c)
    /\ ~isVotingRound(c)
    /\ nextRound(c)

\* a card of the voting grid that also takes a click on the user's own card
VoteCardAnyPlayer(c) ==
    /\ View(c) = "voting"
    /\ \E p \in gplayers[c] :
          /\ userVote[c] = Null
          /\ castVote(c, p.user_id)

\* a card of the voting grid: onClick={() => canVote && castVote(p.user_id)}
VoteCard(c) ==
    /\ View(c) = "voting"
    /\ \E p \in gplayers[c] :
          /\ userVote[c] = Null /\ p.user_id # c
          /\ castVote(c, p.user_id)

\* "Reveal Results": rendered for the host
EndVotingButton(c) ==
    /\ View(c) = "voting"
    /\ isHost(c)
    /\ endVoting(c)

\* the page is loaded again
Reload(c) == checkCurrentGame(c)

\* GameLobby's fetchGameData sets `story` and `players`, which only the host's
\* controls read (the Start button and startGame); for the other clients the
\* two are rendered and never read by a handler they can reach, so their
\* refreshes are left to SpecDirect
hostFetchGameData(c) == isHost(c) /\ fetchGameData(c)

\* the lobby from createGame on: users join and leave, the host's list follows
Next ==
    \E c \in Users :
        \/ JoinButton(c)
        \/ joinGameExisting(c)
        \/ joinGamePlayers(c)
        \/ joinGameInsert(c)
        \/ hostFetchGameData(c)
        \/ LeaveButton(c)
        \/ Reload(c)

Spec == Init /\ [][Next]_vars

\* the same lobby for the story of two players
SpecSmallStory == InitSmallStory /\ [][Next]_vars

\* the game of a lobby of two: the start, the rounds, the vote and its end
NextGame ==
    \E c \in Users :
        \/ hostFetchGameData(c)
        \/ setSession(c)
        \/ StartButton(c)
        \/ startGameRole(c)
        \/ startGameStatus(c)
        \/ LeaveButton(c)
        \/ fetchGameDataPlay(c)
        \/ NextRoundButton(c)
        \/ fetchVotes(c)
        \/ VoteCard(c)
        \/ EndVotingButton(c)
        \/ Reload(c)

SpecGame == InitGame /\ [][NextGame]_vars

\* the session row of a lobby of two: every handler that writes it (startGame,
\* nextRound, endVoting) and what decides the copy a handler computes from
NextRounds ==
    \E c \in Users :
        \/ hostFetchGameData(c)
        \/ setSession(c)
        \/ StartButton(c)
        \/ startGameRole(c)
        \/ startGameStatus(c)
        \/ LeaveButton(c)
        \/ NextRoundButton(c)
        \/ EndVotingButton(c)
        \/ Reload(c)

SpecRounds == InitGame /\ [][NextRounds]_vars

\* the handlers called by any client of the view that holds them, without the
\* isHost condition of the render: what each handler itself refuses
startGameCall(c) == View(c) = "lobby" /\ startGame(c)

nextRoundCall(c) == View(c) = "play" /\ nextRound(c)

endVotingCall(c) == View(c) = "voting" /\ endVoting(c)

NextDirect ==
    \E c \in Users :
        \/ fetchGameData(c)
        \/ setSession(c)
        \/ startGameCall(c)
        \/ startGameRole(c)
        \/ startGameStatus(c)
        \/ nextRoundCall(c)
        \/ endVotingCall(c)

SpecDirect == InitGame /\ [][NextDirect]_vars

\* the clues of a lobby of two: every client loads the story in the lobby, the
\* host starts and advances the rounds, the pages are loaded again at any time
NextClues ==
    \E c \in Users :
        \/ fetchGameData(c)
        \/ setSession(c)
        \/ StartButton(c)
        \/ startGameRole(c)
        \/ startGameStatus(c)
        \/ fetchGameDataPlay(c)
        \/ NextRoundButton(c)
        \/ Reload(c)

SpecClues == InitGame /\ [][NextClues]_vars

\* a third user joins the lobby of two while the host starts the game and
\* advances the rounds; the second player stays in the lobby and does nothing
NextLateJoin ==
    \E c \in Users \ {"u2"} :
        \/ JoinButton(c)
        \/ joinGameExisting(c)
        \/ joinGamePlayers(c)
        \/ joinGameInsert(c)
        \/ fetchGameData(c)
        \/ setSession(c)
        \/ StartButton(c)
        \/ startGameRole(c)
        \/ startGameStatus(c)
        \/ fetchGameDataPlay(c)
        \/ NextRoundButton(c)

SpecLateJoin == InitGame /\ [][NextLateJoin]_vars

\* the game of a lobby of two without reloads: the start, the rounds, and what
\* each client fetches and receives
NextProgress ==
    \E c \in Users :
        \/ fetchGameData(c)
        \/ setSession(c)
        \/ StartButton(c)
        \/ startGameRole(c)
        \/ startGameStatus(c)
        \/ fetchGameDataPlay(c)
        \/ NextRoundButton(c)

\* a request that was sent is answered, a change event is delivered, and a
\* running startGame goes on; the clicks of the host are not forced
Delivery ==
    \A c \in Users :
        /\ WF_vars(fetchGameData(c))
        /\ WF_vars(setSession(c))
        /\ WF_vars(fetchGameDataPlay(c))
        /\ WF_vars(startGameRole(c))
        /\ WF_vars(startGameStatus(c))

SpecProgress == InitGame /\ [][NextProgress]_vars /\ Delivery

\* the two players of the lobby play the game to its end, load the page
\* again, leave, and call joinGame with the code of their session
NextRejoin ==
    \E c \in Joined :
        \/ hostFetchGameData(c)
        \/ setSession(c)
        \/ StartButton(c)
        \/ startGameRole(c)
        \/ startGameStatus(c)
        \/ LeaveButton(c)
        \/ NextRoundButton(c)
        \/ EndVotingButton(c)
        \/ Reload(c)
        \/ JoinButton(c)
        \/ joinGameExisting(c)
        \/ joinGamePlayers(c)
        \/ joinGameInsert(c)

SpecRejoin == InitGame /\ [][NextRejoin]_vars

\* the host of a lobby of three starts the game and goes through the rounds
NextHostView ==
    \/ fetchGameData(Host)
    \/ setSession(Host)
    \/ StartButton(Host)
    \/ startGameRole(Host)
    \/ startGameStatus(Host)
    \/ fetchGameDataPlay(Host)
    \/ NextRoundButton(Host)
    \/ Reload(Host)

SpecHostView == InitGameOfThree /\ [][NextHostView]_vars

\* the same, with a host who clicks the advance control whenever it stays offered
SpecAdvance ==
    InitGame /\ [][NextProgress]_vars /\ Delivery /\ WF_vars(NextRoundButton(Host))

\* the lobby of Spec, with users of the dashboard who create sessions of
\* their own
NextCreate ==
    \E c \in Users :
        \/ CreateButton(c)
        \/ createGame_characters(c)
        \/ createGame_player(c)
        \/ JoinButton(c)
        \/ joinGameExisting(c)
        \/ joinGamePlayers(c)
        \/ joinGameInsert(c)
        \/ hostFetchGameData(c)
        \/ LeaveButton(c)
        \/ Reload(c)

SpecCreate == Init /\ [][NextCreate]_vars

\* the two players of the lobby play the game to its end, load the page
\* again and create sessions of their own
NextTwoGames ==
    \E c \in Joined :
        \/ hostFetchGameData(c)
        \/ setSession(c)
        \/ StartButton(c)
        \/ startGameRole(c)
        \/ startGameStatus(c)
        \/ NextRoundButton(c)
        \/ EndVotingButton(c)
        \/ Reload(c)
        \/ CreateButton(c)
        \/ createGame_characters(c)
        \/ createGame_player(c)

SpecTwoGames == InitGame /\ [][NextTwoGames]_vars

\* the game of a lobby of two up to the vote, nobody leaving or loading again
NextVoting ==
    \E c \in Joined :
        \/ setSession(c)
        \/ StartButton(c)
        \/ startGameRole(c)
        \/ startGameStatus(c)
        \/ fetchGameDataPlay(c)
        \/ NextRoundButton(c)
        \/ fetchVotes(c)
        \/ VoteCard(c)
        \/ EndVotingButton(c)

SpecVoting == InitGame /\ [][NextVoting]_vars

\* the lists of rows GameResults can be given: rows of distinct users in any
\* order, with any roles
PlayerLists ==
    {ps \in UNION {[1..n -> {rowOf(u, r) : u \in Users, r \in {"detective", "murderer"}}] :
                      n \in 0..Len(UserSeq)} :
        \A i, j \in 1..Len(ps) : i # j => ps[i].user_id # ps[j].user_id}

\* a completed session as GameResults finds it when mounted: any list of
\* players, any stored votes, its own `votes` still empty
InitResults ==
    /\ \E r \in 1..MaxRounds :
          session = [status |-> "completed", current_round |-> r, max_rounds |-> r,
                     password |-> "pw", host_id |-> Host, story_id |-> "s1"]
    /\ rplayers \in PlayerLists
    /\ game_players = {rplayers[i] : i \in 1..Len(rplayers)}
    /\ \E n \in 0..MaxTallyVotes :
          \E accused \in [1..n -> Users] :
             votes = {[id |-> i, voter_id |-> UserSeq[((i - 1) % Len(UserSeq)) + 1],
                       accused_id |-> accused[i]] : i \in 1..n}
    /\ updates = <<>>
    /\ nextPlayerId = Len(UserSeq) + 1
    /\ nextVoteId = Cardinality(votes) + 1
    /\ screen = [c \in Users |-> "dashboard"]
    /\ lsession = [c \in Users |-> NoSession]
    /\ lplayer = [c \in Users |-> NoPlayer]
    /\ cursor = [c \in Users |-> 0]
    /\ story = [c \in Users |-> NoStory]
    /\ players = [c \in Users |-> {}]
    /\ gplayers = [c \in Users |-> {}]
    /\ gfetch = [c \in Users |-> FALSE]
    /\ gmount = [c \in Users |-> NoMount]
    /\ clues = [c \in Users |-> {}]
    /\ userVote = [c \in Users |-> Null]
    /\ jpc = [c \in Users |-> "idle"]
    /\ takenCharacterIds = [c \in Users |-> {}]
    /\ jpassword = [c \in Users |-> Null]
    /\ spc = [c \in Users |-> "idle"]
    /\ todo = [c \in Users |-> {}]
    /\ murdererId = [c \in Users |-> 0]
    /\ rvotes = {}
    /\ rfetch = TRUE
    /\ osessions = {}
    /\ cpc = [c \in Users |-> "idle"]
    /\ csession = [c \in Users |-> 0]

NextResults == fetchVotesResults

SpecResults == InitResults /\ [][NextResults]_vars

\* the lobby of two is a state of Spec
GameLobbyReached ==
    /\ game_players = LobbyRows
    /\ session.status = "waiting"
    /\ \A c \in Joined : View(c) = "lobby"
    /\ players[Host] = lobbyRows(LobbyRows)
    /\ story[Host] = StoryRow

(* ------------------------------------------------------------------ *)
(* Properties                                                           *)
(* ------------------------------------------------------------------ *)

murderers == {p \in game_players : p.role = "murderer"}

\* C1: whenever the stored status is in_progress, voting or completed, exactly
\* one player row of the session has role murderer and every other row has
\* role detective, whatever the interleaving of startGame's writes with
\* leaveGame and a second startGame.
C1_ExactlyOneMurderer ==
    session.status \in {"in_progress", "voting", "completed"} =>
        /\ Cardinality(murderers) = 1
        /\ \A p \in game_players \ murderers : p.role = "detective"

\* C2: for every interleaving of joinGame calls by different users, no two
\* player rows of the session hold the same character_id.
C2_UniqueCharacters ==
    \A p, q \in game_players : p # q => p.character_id # q.character_id

\* C3: the stored status never moves backward in the order
\* waiting < in_progress < voting < completed.
C3_StatusNeverRegresses ==
    [][StatusRank(session'.status) >= StatusRank(session.status)]_vars

\* C4: every voter has at most one vote row, and a recorded row is never
\* changed or removed (its accused_id stays as cast).
C4_OneVotePerVoter ==
    [][/\ \A v, w \in votes' : v.voter_id = w.voter_id => v = w
       /\ votes \subseteq votes']_vars

\* C5: when a client that is not the host calls startGame, nextRound or
\* endVoting, the session row and every player row stay as they were.
C5_NonHostRejected ==
    [][\A c \in Users \ {Host} :
          (\/ startGameCall(c) \/ startGameRole(c) \/ startGameStatus(c)
           \/ nextRoundCall(c) \/ endVotingCall(c))
          => UNCHANGED <<session, game_players>>]_vars

\* C6: once the stored status is completed, no step of any client changes the
\* session row, the player rows or the vote rows.
C6_CompletedTerminal ==
    [][session.status = "completed" =>
          UNCHANGED <<session, game_players, votes>>]_vars

\* C7: after the start, a client showing the game that has received every
\* session update uses, for its badge and clue filter, the role stored in its
\* own player row.
C7_LocalRoleIsStoredRole ==
    \A c \in Users :
        (/\ View(c) \in {"play", "voting"}
         /\ session.status # "waiting"
         /\ cursor[c] = Len(updates))
        => \A p \in game_players :
              p.id = lplayer[c].id =>
                  /\ lplayer[c].role = p.role
                  /\ isMurderer(c) <=> p.role = "murderer"

\* C8: after the start, current_round = max_rounds exactly when the status is
\* voting or completed, for every max_rounds >= 1.
C8_VotingIffLastRound ==
    session.status # "waiting" =>
        (session.current_round = session.max_rounds
            <=> session.status \in {"voting", "completed"})

\* C9: the stored current_round never decreases, and every nextRound that
\* writes raises it by exactly 1, also when the host's copy is stale.
C9_RoundAdvancesByOne ==
    [][/\ session'.current_round >= session.current_round
       /\ (\E c \in Users : isHost(c) /\ NextRoundButton(c))
             => session'.current_round = session.current_round + 1]_vars

\* C10: the stored session always has 0 <= current_round <= max_rounds, under
\* any sequence of startGame and nextRound.
C10_RoundInRange ==
    /\ 0 <= session.current_round
    /\ session.current_round <= session.max_rounds

\* the last round has been reached by nextRound, in a game of MaxRounds rounds
C10_LastRoundReached ==
    /\ session.max_rounds = MaxRounds
    /\ session.current_round = session.max_rounds
    /\ session.status = "voting"
    /\ Len(updates) >= MaxRounds

\* the positions of the murderers in GameResults' players list, and the votes
\* GameResults counts for the player at a position
rmurderers == {i \in 1..Len(rplayers) : rplayers[i].role = "murderer"}

rcount(i) == voteCount(rplayers[i], rvotes)

\* C11: for every player list and vote set the tally is the players sorted by
\* descending vote count, and the outcome is 'detectives win' if and only if
\* the entry at its first position has role murderer and at least one vote;
\* it is 'murderer wins' in every other case.
C11_OutcomeByMostVoted ==
    LET tally == voteCounts(rplayers, rvotes)
    IN /\ Len(tally) = Len(rplayers)
       /\ {tally[i].player : i \in 1..Len(tally)} = {rplayers[i] : i \in 1..Len(rplayers)}
       /\ \A i, j \in 1..Len(tally) : i < j => tally[i].voteCount >= tally[j].voteCount
       /\ \A i \in 1..Len(tally) : tally[i].voteCount = voteCount(tally[i].player, rvotes)
       /\ outcome(rplayers, rvotes) = "detectives win"
             <=> (/\ Len(tally) > 0
                  /\ tally[1].player.role = "murderer"
                  /\ tally[1].voteCount >= 1)
       /\ outcome(rplayers, rvotes) # "detectives win"
             => outcome(rplayers, rvotes) = "murderer wins"

\* the votes are fetched and the detectives have won
C11_DetectivesWinReached ==
    /\ ~rfetch
    /\ rvotes # {}
    /\ outcome(rplayers, rvotes) = "detectives win"

\* C12: with one murderer in the list, whatever the order of the list: when
\* the murderer has strictly more votes than every other player the outcome
\* is 'detectives win', and when some detective has strictly more votes than
\* the murderer the outcome is 'murderer wins'.
C12_StrictMajorityDecides ==
    \A m \in rmurderers :
        rmurderers = {m} =>
            /\ (\A i \in 1..Len(rplayers) : i # m => rcount(m) > rcount(i))
                  => outcome(rplayers, rvotes) = "detectives win"
            /\ (\E d \in 1..Len(rplayers) :
                    rplayers[d].role = "detective" /\ rcount(d) > rcount(m))
                  => outcome(rplayers, rvotes) = "murderer wins"

\* C12, amended: as C12, the first case taken only when the murderer has at
\* least one vote (a list of the murderer alone, with no vote, is 'murderer
\* wins').
C12_VotedMajorityDecides ==
    \A m \in rmurderers :
        rmurderers = {m} =>
            /\ (/\ rcount(m) >= 1
                 /\ \A i \in 1..Len(rplayers) : i # m => rcount(m) > rcount(i))
                  => outcome(rplayers, rvotes) = "detectives win"
            /\ (\E d \in 1..Len(rplayers) :
                    rplayers[d].role = "detective" /\ rcount(d) > rcount(m))
                  => outcome(rplayers, rvotes) = "murderer wins"

\* the murderer is last in the list and has more votes than each of the others
C12_MurdererLastMostVoted ==
    /\ ~rfetch
    /\ Len(rplayers) >= 2
    /\ rmurderers = {Len(rplayers)}
    /\ \A i \in 1..(Len(rplayers) - 1) : rcount(Len(rplayers)) > rcount(i)
    /\ \E i \in 1..(Len(rplayers) - 1) : rcount(i) >= 1

\* C13: when the session has no vote row, the outcome is 'murderer wins' for
\* every player list, a list whose first player is the murderer included.
C13_NoVotesMurdererWins ==
    votes = {} => outcome(rplayers, rvotes) = "murderer wins"

\* no vote is stored, the fetch is done, and the murderer is first in the list
C13_NoVotesMurdererFirst ==
    /\ ~rfetch
    /\ votes = {}
    /\ Len(rplayers) >= 2
    /\ rmurderers = {1}

\* C14: entries of equal count keep the order of the players list, so when
\* the one murderer and a detective tie for the highest count (>= 1) the
\* outcome is 'detectives win' exactly when the murderer stands before every
\* tied detective in the players list.
C14_TiesKeepListOrder ==
    LET tally == voteCounts(rplayers, rvotes)
        pos(e) == CHOOSE i \in 1..Len(rplayers) : rplayers[i] = e.player
    IN /\ \A i, j \in 1..Len(tally) :
             (i < j /\ tally[i].voteCount = tally[j].voteCount)
                 => pos(tally[i]) < pos(tally[j])
       /\ \A m \in rmurderers :
             LET tied == {d \in 1..Len(rplayers) :
                            d # m /\ rcount(d) = rcount(m)}
             IN (/\ rmurderers = {m}
                 /\ rcount(m) >= 1
                 /\ \A i \in 1..Len(rplayers) : rcount(i) <= rcount(m)
                 /\ tied # {})
                => (outcome(rplayers, rvotes) = "detectives win"
                      <=> \A d \in tied : m < d)

\* the murderer ties for the highest count with a detective that stands
\* before it in the list
C14_TieDetectiveFirst ==
    /\ ~rfetch
    /\ \E m \in rmurderers, d \in 1..Len(rplayers) :
          /\ rmurderers = {m}
          /\ d < m
          /\ rcount(m) >= 1
          /\ rcount(d) = rcount(m)
          /\ \A i \in 1..Len(rplayers) : rcount(i) <= rcount(m)
          /\ outcome(rplayers, rvotes) = "murderer wins"

\* the stored role of a client: the role of its row in game_players
storedRoles(c) == {p.role : p \in {q \in game_players : q.user_id = c}}

\* C15: a clue with is_for_murderer = true is never among the clues shown to a
\* viewer whose stored role is detective, at any round and in any state of
\* the session.
C15_NoMurdererClueForDetective ==
    \A c \in Users :
        storedRoles(c) = {"detective"} =>
            \A cl \in visibleClues(c) : cl.is_for_murderer # "true"

\* C16: a viewer whose role is murderer (stored, and used by the client) is
\* shown only clues with is_for_murderer = true.
C16_MurdererSeesOnlyFlagged ==
    \A c \in Users :
        (storedRoles(c) = {"murderer"} /\ isMurderer(c)) =>
            \A cl \in visibleClues(c) : cl.is_for_murderer = "true"

\* C17: in every state, no clue whose round_number is greater than the stored
\* current_round is among the clues a client shows.
C17_NoClueOfLaterRound ==
    \A c \in Users :
        \A cl \in visibleClues(c) : cl.round_number <= session.current_round

\* C20: every player row is inserted while the stored status is waiting and no
\* startGame has begun to write roles: a joinGame that passed its status
\* check does not insert after a concurrent startGame has started.
C20_InsertOnlyWhileWaiting ==
    [][(\E c \in Users : joinGameInsert(c)) =>
          /\ session.status = "waiting"
          /\ \A h \in Users :
                spc[h] = "running" => todo[h] = {p.id : p \in players[h]}]_vars

\* the clues a role is meant to see: the murderer the flagged ones, a detective
\* the others
roleMaySee(c, cl) == (cl.is_for_murderer = "true") <=> isMurderer(c)

\* C18: once a client showing the game has received the update of a round
\* r >= 2, its shown clues eventually contain every clue its role may see with
\* round_number <= r.
C18_CluesFollowRound ==
    \A c \in Users : \A r \in 2..MaxRounds :
        (/\ screen[c] = "game"
         /\ GamePlayMounted(lsession[c])
         /\ lsession[c].current_round = r)
        ~> (\/ \A cl \in Clues :
                  (cl.round_number <= r /\ roleMaySee(c, cl))
                      => cl \in visibleClues(c)
            \/ screen[c] # "game"
            \/ ~GamePlayMounted(lsession[c]))

\* C19: on a session with a password, joinGame inserts a player row only when
\* the password it was called with equals the stored one exactly; called with
\* a wrong password or an unknown code it ends at once and the player rows
\* stay as they were.
C19_PasswordGuardsInsert ==
    [][/\ \A c \in Users :
             (session.password # Null /\ game_players' # game_players
                 /\ joinGameInsert(c))
                => jpassword[c] = session.password
       /\ \A c \in Users : \A code \in Codes, pw \in Passwords :
             (/\ joinGame(c, code, pw)
              /\ \/ toUpperCase(code) # SessionCode
                 \/ session.password # Null /\ pw # session.password)
                => /\ game_players' = game_players
                   /\ jpc'[c] = "idle"
                   /\ screen'[c] = "dashboard"]_vars

\* a user has joined the password-protected session by joinGame
C19_JoinedWithPassword ==
    /\ session.password # Null
    /\ \E p \in game_players :
          p.user_id # Host /\ screen[p.user_id] = "game" /\ lplayer[p.user_id] = p

\* C21: the number of player rows of the session never exceeds the story's
\* max_players nor the number of the story's characters, also when several
\* joinGame calls run at the same time.
C21_PlayersWithinCapacity ==
    /\ Cardinality(game_players) <= StoryRow.max_players
    /\ Cardinality(game_players) <= Cardinality(Characters)

\* the player rows a user holds in the session
ownRows(c) == {p \in game_players : p.user_id = c}

\* C22: when the user has a player row in the session, joinGame called with
\* the session's code and password goes on to its existing-player branch,
\* whatever the status of the session, and that branch hands the existing row
\* to the page and writes no row.
C22_RejoinReturnsExistingRow ==
    \A c \in Users :
        /\ (screen[c] = "dashboard" /\ jpc[c] = "idle" /\ Cardinality(ownRows(c)) = 1)
              => ENABLED (joinGame(c, SessionCode, session.password)
                             /\ jpc'[c] = "existing")
        /\ (jpc[c] = "existing" /\ Cardinality(ownRows(c)) = 1)
              => ENABLED (/\ joinGameExisting(c)
                          /\ game_players' = game_players
                          /\ screen'[c] = "game"
                          /\ lplayer'[c] \in ownRows(c))

\* C23: a call of startGame goes past its player-count test only when the
\* session has at least the story's min_players stored player rows.
C23_StartNeedsMinPlayers ==
    [][\A c \in Users :
          (spc[c] = "idle" /\ spc'[c] = "running")
              => Cardinality(game_players) >= StoryRow.min_players]_vars

\* C24: while the stored status is waiting no stored player row has the role
\* murderer.
C24_NoMurdererWhileWaiting ==
    session.status = "waiting" => murderers = {}

\* C25: once the stored status has left waiting, no step changes the role of
\* a stored player row.
C25_RolesFixedAfterStart ==
    [][session.status # "waiting"
          => \A p \in game_players, q \in game_players' :
                 p.id = q.id => p.role = q.role]_vars

\* the rows a step removes from game_players
deletedRows == {p \in game_players : \A q \in game_players' : q.id # p.id}

\* C26: a step that deletes player rows deletes rows of one client only, the
\* one that leaves for the dashboard, keeps every other row as it was and
\* leaves the session row (status, current_round, host_id) unchanged.
C26_LeaveDeletesOwnRowOnly ==
    [][deletedRows # {}
          => /\ \E c \in Users :
                   /\ screen[c] = "game" /\ screen'[c] = "dashboard"
                   /\ deletedRows = {p \in game_players : p.id = lplayer[c].id}
                   /\ deletedRows \subseteq ownRows(c)
             /\ game_players' = game_players \ deletedRows
             /\ session' = session]_vars

\* C26: after a step that deletes a player row the character of that row is
\* among the characters a joinGame reading the rows now can draw.
C26_LeaverCharacterFree ==
    [][\A p \in deletedRows :
          p.character_id \in
              availableCharacters({q.character_id : q \in game_players'})]_vars

\* C27: a step deletes player rows only while the stored status of the
\* session is waiting.
C27_DeleteOnlyWhileWaiting ==
    [][deletedRows # {} => session.status = "waiting"]_vars

\* C28: a step inserts a vote row only while the stored status of the
\* session is voting.
C28_VoteOnlyWhileVoting ==
    [][votes' \ votes # {} => session.status = "voting"]_vars

\* C29: a client in the game whose copy of the session has status completed
\* shows the results view, not the lobby and not the in-game view.
C29_CompletedShowsResults ==
    \A c \in Users :
        (screen[c] = "game" /\ lsession[c].status = "completed")
            => View(c) = "results"

\* the rows `rows` with the murderer among the rows of the other users moved
\* to the row m
murdererMoved(rows, c, m) ==
    {IF p.user_id = c THEN p
     ELSE [p EXCEPT !.role = IF p.id = m THEN "murderer" ELSE "detective"] :
        p \in rows}

\* the rows of `rows` that are not the client's own
otherRows(rows, c) == {p \in rows : p.user_id # c}

\* C30: while the host shows the in-game view, the players list rendered from
\* the rows it fetched is the same as the one rendered from those rows with
\* the murderer moved to any other non-host row, and the clues it holds are
\* the ones computed from the round of its mount and its own role alone.
C30_HostViewIgnoresRoles ==
    \A c \in Users :
        (View(c) = "play" /\ isHost(c)) =>
            /\ \A m \in {p.id : p \in otherRows(gplayers[c], c)} :
                  playersList(c, murdererMoved(gplayers[c], c, m))
                      = playersList(c, gplayers[c])
            /\ clues[c] \in {{}, cluesWithVisibility(gmount[c].current_round,
                                                     isMurderer(c))}

\* the host shows the in-game view with its clues, has fetched three rows and
\* one of the two other players is the murderer
C30_HostSeesOtherMurderer ==
    /\ View(Host) = "play" /\ isHost(Host)
    /\ Cardinality(gplayers[Host]) = 3
    /\ visibleClues(Host) # {}
    /\ \E p \in otherRows(gplayers[Host], Host) : p.role = "murderer"

\* C31: a session whose stored status is in_progress, with a host who keeps
\* clicking the advance control while it is offered, eventually has the stored
\* status voting (or the session row has been updated MaxUpdates times).
C31_StartedReachesVoting ==
    (session.status = "in_progress")
        ~> (session.status = "voting" \/ Len(updates) = MaxUpdates)

\* C32: when a createGame call that inserted a session row ends, with
\* success or with an error, that session has a player row for its host, with
\* role detective and a character of the chosen story.
C32_CreatedSessionHasHost ==
    [][\A c \in Users :
          (/\ createGame_characters(c) \/ createGame_player(c)
           /\ cpc'[c] = "idle")
              => \A s \in osessions' :
                    s.id = csession[c] =>
                        /\ s.player.user_id = s.host_id
                        /\ s.player.role = "detective"
                        /\ s.player.character_id \in charactersOf(s.story_id)]_vars

\* the number of sessions with a status other than completed in which the
\* user has a player row
activeGames(c) ==
    (IF session.status # "completed" /\ ownRows(c) # {} THEN 1 ELSE 0)
        + Cardinality(hostedSessions(c))

\* C33: in every state a user has a player row in at most one session whose
\* status is not completed.
C33_OneActiveGamePerUser ==
    \A c \in Users : activeGames(c) <= 1

\* C34: no stored vote row has accused_id equal to its voter_id.
C34_NoVoteForOneself ==
    \A v \in votes : v.accused_id # v.voter_id

\* a client whose voting grid has its own card has cast its vote
C34_VotedWithOwnCardShown ==
    \E c \in Users :
        /\ userVote[c] # Null
        /\ \E p \in gplayers[c] : p.user_id = c
        /\ \E v \in votes : v.voter_id = c

====
